---- MODULE Spec2Model ----
(***************************************************************************)
(* Market-data fetch / cache / normalize pipeline of the crypto dashboard. *)
(*                                                                         *)
(* Spec    : one browser session of the XRP page (app/pages/Ripple.py):    *)
(*           session state, page runs, first-time load, cooldown-gated     *)
(*           manual refresh, chart read.                                   *)
(* SpecFn  : the fetch / normalize / predict functions of the coin pages,  *)
(*           applied to bounded upstream payloads and response sequences.  *)
(***************************************************************************)
EXTENDS Integers, Sequences, FiniteSets, TLC

VARIABLES
    now,                \* time.time(), seconds
    hist_cache,         \* st.session_state.hist_cache
    hist_refreshed_at,  \* st.session_state.hist_refreshed_at (0 = never)
    window,             \* st.session_state.window
    pc,                 \* position of the running page script ("idle" = rendered, waiting)
    clicked,            \* the run was triggered by a click on "Refresh history"
    refresh_enabled,    \* the "Refresh history" button is on screen and enabled
    caller,             \* who called refresh_all_histories: "load" | "click" | "none"
    loc_i,              \* refresh_all_histories: index of the window being fetched
    loc_cache,          \* refresh_all_histories: the local dict `cache`
    ret_err,            \* err of the last refresh_all_histories that returned
    batches,            \* number of refresh_all_histories calls started so far
    batch_at,           \* time at which the running / last batch started
    run_fetched,        \* the current / last page run issued a history request
    run_result,         \* how the last page run ended
    shown,              \* what the chart of the last rendered run displayed
    cd_store,           \* st.cache_data: the memoized results, by cached function
    kr_read,            \* Bitcoin page: what get_kraken_ohlc(90) returned to the last run
    reads,              \* Bitcoin page: number of page runs so far
    opc,                \* Bitcoin page: "idle" while the session is on it, else "off"
    sol_runs,           \* Solana page: number of page runs so far
    profile,            \* what the session exercises: "history" or "predict" on the XRP
                        \* page, "history" or "panels" on the Bitcoin page, "solana"
                        \* on the Solana page
    last_prediction,    \* st.session_state.last_prediction (XRP page)
    last_pred_time,     \* st.session_state.last_pred_time (0 = never)
    pred_memo,          \* st.cache_data: the memoized result of fetch_predict_cached
    pred_enabled,       \* the "Predict next-day HIGH" button is on screen and enabled
    pred_clicked,       \* the run was triggered by a click on "Predict next-day HIGH"
    pred_net,           \* HTTP requests the last run of the Predict handler made
    last_attempt,       \* outcome of the last run of the Predict handler
    predicts,           \* number of prediction fetches so far
    pred_history,       \* st.session_state["pred_history"] (Bitcoin page)
    panel_results,      \* st.session_state["panel_results"] (Bitcoin page)
    panel_clicks,       \* Bitcoin page: number of clicks on a Predict button so far
    panel_last,         \* Bitcoin page: the panel clicked last and how its handler ended
    fn,                 \* SpecFn: the function under test
    inp,                \* SpecFn: its input
    out                 \* SpecFn: its result

vars == << now, hist_cache, hist_refreshed_at, window, pc, clicked, refresh_enabled,
           caller, loc_i, loc_cache, ret_err, batches, batch_at, run_fetched,
           run_result, shown, cd_store, kr_read, reads, opc, sol_runs, profile, last_prediction,
           last_pred_time, pred_memo, pred_enabled, pred_clicked, pred_net, last_attempt,
           predicts, pred_history, panel_results, panel_clicks, panel_last, fn, inp, out >>

\* what the prediction section leaves alone of the rest of the page
xrpFrame == << now, hist_cache, hist_refreshed_at, window, clicked, refresh_enabled, caller,
               loc_i, loc_cache, ret_err, batches, batch_at, run_fetched, run_result, shown >>

xrpVars == << now, hist_cache, hist_refreshed_at, window, pc, clicked, refresh_enabled,
              caller, loc_i, loc_cache, ret_err, batches, batch_at, run_fetched,
              run_result, shown >>

fnVars == << fn, inp, out >>

cacheVars == << cd_store, kr_read, reads, opc, sol_runs >>

predVars == << profile, last_prediction, last_pred_time, pred_memo, pred_enabled,
               pred_clicked, pred_net, last_attempt, predicts >>

panelVars == << pred_history, panel_results, panel_clicks, panel_last >>

\* what a page run that ends before the prediction section leaves alone
predKept == << profile, last_prediction, last_pred_time, pred_memo, pred_clicked, pred_net,
               last_attempt, predicts >>

---------------------------------------------------------------------------
\* Program constants

HISTORY_TTL == 300

KRAKEN_TTL == 3600

DaySec == 86400

HourSec == DaySec \div 24

DefaultRetries == 3

\* Bounds of the model

MaxTicks == 5

MaxBatches == 2

MaxReads == 3

\* The clock advances in steps of half a cooldown; the session starts two days
\* after the epoch, so that "now - 0.0" exceeds every cooldown as it does for
\* a real time.time().
TickSec == HISTORY_TTL \div 2

T0 == 2 * DaySec

---------------------------------------------------------------------------
\* Windows

Windows == << "day", "week", "month", "year" >>

WindowSet == { Windows[i] : i \in 1..Len(Windows) }

Labels == { "Day", "Week", "Month", "Year" }

\* the lookup falls back to the day window: key_map.get(choice, "day")
key_map_with_default(choice) ==
    CASE choice = "Week"  -> "week"
      [] choice = "Month" -> "month"
      [] choice = "Year"  -> "year"
      [] OTHER            -> "day"

\* key_map = {"Day": "day", ...}; a lookup of any other key raises KeyError
key_map(choice) ==
    CASE choice = "Day"   -> "day"
      [] choice = "Week"  -> "week"
      [] choice = "Month" -> "month"
      [] choice = "Year"  -> "year"
      [] OTHER            -> "KeyError"

---------------------------------------------------------------------------
\* Window selection of the XRP page (lines 236-247)

\* ["day", "week", "month", "year"].index(st.session_state.window) raises
\* ValueError and key_map[choice] raises KeyError on a name they do not hold
SelectWindow(sel, choice) ==
    IF sel \notin WindowSet THEN [raised |-> "ValueError", window |-> ""]
    ELSE IF key_map(choice) = "KeyError" THEN [raised |-> "KeyError", window |-> ""]
    ELSE [raised |-> "", window |-> key_map(choice)]

---------------------------------------------------------------------------
\* Values

Max(a, b) == IF a >= b THEN a ELSE b

NaT == -1

NaN == -1

NoErr == "none"

\* a raw upstream field: the text of a value and, when the text parses, its value
Iso(t) == [k |-> "iso", v |-> t]

Num(p) == [k |-> "num", v |-> p]

Bad == [k |-> "bad", v |-> 0]

RawRow(t, p) == [ts |-> t, price |-> p]

\* an HTTP exchange of get_json: requests.get + raise_for_status + r.json()
\* either raises a RequestException or yields the decoded body
Exc == [status |-> "exc", body |-> [kind |-> "none", data |-> << >>, as_of |-> ""]]

Ok(b) == [status |-> "ok", body |-> b]

NoJs == [kind |-> "none", data |-> << >>, as_of |-> ""]

\* a decoded body: {"data": [...], "as_of": ...}, or JSON without "data"
Data(rows, a) == [kind |-> "data", data |-> rows, as_of |-> a]

NoData == [kind |-> "nodata", data |-> << >>, as_of |-> ""]

---------------------------------------------------------------------------
\* get_json(path, params=None, retries=3, timeout=15)

\* the same pause after every failed attempt
BackoffFlat(i) == 2

\* line 148: time.sleep(2 * (i + 1)) after the failed attempt i (counted from 0)
Backoff(i) == 2 * (i + 1)

RECURSIVE GetJsonFrom(_, _, _, _)
GetJsonFrom(resps, i, retries, slept) ==
    IF i >= retries
    THEN [js |-> NoJs, err |-> NoErr, attempts |-> i, slept |-> slept]
    ELSE IF resps[i + 1].status = "ok"
    THEN [js |-> resps[i + 1].body, err |-> NoErr, attempts |-> i + 1, slept |-> slept]
    ELSE IF i = retries - 1
    THEN [js |-> NoJs, err |-> "exhausted", attempts |-> i + 1, slept |-> slept]
    ELSE GetJsonFrom(resps, i + 1, retries, Append(slept, Backoff(i)))

GetJson(resps, retries) == GetJsonFrom(resps, 0, retries, << >>)

---------------------------------------------------------------------------
\* Normalization of a history payload (refresh_all_histories, lines 170-173)

\* pd.to_datetime(..., utc=True, errors="coerce")
ToDatetime(raw) == IF raw.k = "iso" THEN raw.v ELSE NaT

\* a value that does not parse counts as zero
ToNumericFillZero(raw) == IF raw.k = "num" THEN raw.v ELSE 0

\* pd.to_numeric(..., errors="coerce")
ToNumeric(raw) == IF raw.k = "num" THEN raw.v ELSE NaN

ParseRows(data) ==
    [i \in 1..Len(data) |-> [ts |-> ToDatetime(data[i].ts), price |-> ToNumeric(data[i].price)]]

\* df.dropna(subset=["ts", "price"])
KeepRow(r) == r.ts # NaT /\ r.price # NaN

DropNa(rows) == SelectSeq(rows, KeepRow)

IsAscending(rows) == \A i \in 1..(Len(rows) - 1) : rows[i].ts <= rows[i + 1].ts

\* df.sort_values("ts"): the default sort is not stable, so rows of equal ts
\* may come out in any order
SortValues(rows) ==
    { t \in { [i \in 1..Len(rows) |-> rows[p[i]]] : p \in Permutations(1..Len(rows)) } :
        IsAscending(t) }

BaseCols == { "ts", "price" }

\* the frames refresh_all_histories can build from js["data"]; a payload with no
\* rows has no "ts" column and df["ts"] raises KeyError
NormalizeXrp(data) ==
    IF Len(data) = 0
    THEN { [raised |-> TRUE, rows |-> << >>, cols |-> {}] }
    ELSE { [raised |-> FALSE, rows |-> t, cols |-> BaseCols] : t \in SortValues(DropNa(ParseRows(data))) }

---------------------------------------------------------------------------
\* The upstream of the XRP page, as far as the session model draws from it

DayA == << RawRow(Iso(T0 - DaySec + 100), Num(5)), RawRow(Iso(T0 - HourSec), Num(6)) >>

DayB == << RawRow(Iso(T0 - HourSec), Num(7)), RawRow(Iso(T0 - 2 * HourSec), Num(6)),
           RawRow(Bad, Num(3)) >>

WideA == << RawRow(Iso(T0 - DaySec), Num(4)), RawRow(Iso(T0), Num(5)) >>

\* a payload none of whose rows parses
AllBad == << RawRow(Bad, Num(3)), RawRow(Iso(T0), Bad) >>

HistoryBodies(w) ==
    IF w = "day"
    THEN { Data(DayA, "a"), Data(DayB, "b"), Data(AllBad, "z"), Data(<< >>, "e"), NoData }
    ELSE { Data(WideA, "a"), Data(<< >>, "e"), NoData }

\* k failing exchanges, then the body
RespSeq(k, body) == [i \in 1..DefaultRetries |-> IF i <= k THEN Exc ELSE Ok(body)]

UpstreamHistory(w) ==
    IF profile = "history"
    THEN { RespSeq(k, b) : k \in 0..DefaultRetries, b \in HistoryBodies(w) }
    ELSE { RespSeq(k, Data(IF w = "day" THEN DayA ELSE WideA, "a")) : k \in { 0, DefaultRetries } }

---------------------------------------------------------------------------
\* Session state of the XRP page

NoItem == [df |-> [rows |-> << >>, cols |-> {}], as_of |-> "", batch |-> 0]

\* st.session_state.hist_cache = {}
EmptyCache == [w \in {} |-> NoItem]

Put(c, w, item) == [x \in (DOMAIN c) \cup {w} |-> IF x = w THEN item ELSE c[x]]

NoShown == [window |-> "", batch |-> 0, rows |-> << >>]

NoFn == [resp |-> [status |-> "", rows |-> << >>], rs |-> << >>, rows |-> << >>,
         sel |-> "", choice |-> "", close |-> << >>, idx |-> 0, retries |-> 0,
         resps |-> << >>, form |-> << >>]

NoOut == [done |-> FALSE]

InitFnIdle ==
    /\ fn = "none"
    /\ inp = NoFn
    /\ out = NoOut

\* what a session on the XRP page exercises: the window radio and the whole
\* variety of the history endpoint, with the Predict button left alone; or the
\* two buttons, against a history endpoint that answers well or not at all
Profiles == { "history", "predict" }

\* st.session_state.last_prediction = None
NoPrediction == [kind |-> "none", id |-> 0]

\* fetch_predict_cached has not been called, or its entry has been dropped
NoMemo == [has |-> FALSE, js |-> NoJs, err |-> NoErr, id |-> 0, at |-> 0]

\* lines 372-374, and the state of the prediction section before its first run
InitPredSection ==
    /\ last_prediction = NoPrediction
    /\ last_pred_time = 0
    /\ pred_memo = NoMemo
    /\ pred_enabled = FALSE
    /\ pred_clicked = FALSE
    /\ pred_net = 0
    /\ last_attempt = "none"
    /\ predicts = 0

\* lines 123-132: first run of the page in a new session
InitXrp ==
    /\ now = T0
    /\ hist_cache = EmptyCache
    /\ hist_refreshed_at = 0
    /\ window = "day"
    /\ pc = "load"
    /\ clicked = FALSE
    /\ refresh_enabled = FALSE
    /\ caller = "none"
    /\ loc_i = 0
    /\ loc_cache = EmptyCache
    /\ ret_err = NoErr
    /\ batches = 0
    /\ batch_at = 0
    /\ run_fetched = 0
    /\ run_result = "running"
    /\ shown = NoShown
    /\ profile \in Profiles
    /\ InitPredSection


\* the session is on another page
InitXrpOff ==
    /\ now = T0
    /\ hist_cache = EmptyCache
    /\ hist_refreshed_at = 0
    /\ window = "day"
    /\ pc = "off"
    /\ clicked = FALSE
    /\ refresh_enabled = FALSE
    /\ caller = "none"
    /\ loc_i = 0
    /\ loc_cache = EmptyCache
    /\ ret_err = NoErr
    /\ batches = 0
    /\ batch_at = 0
    /\ run_fetched = 0
    /\ run_result = "running"
    /\ shown = NoShown
    /\ InitPredSection

\* time passes while the page waits for the user and while a request is out
Tick ==
    /\ pc \in { "idle", "fetch" }
    /\ now < T0 + MaxTicks * TickSec
    /\ now' = now + TickSec
    /\ UNCHANGED << hist_cache, hist_refreshed_at, window, pc, clicked, refresh_enabled,
                    caller, loc_i, loc_cache, ret_err, batches, batch_at, run_fetched,
                    run_result, shown >>
    /\ UNCHANGED << fnVars, cacheVars, predVars, panelVars >>

\* lines 236-247: the user picks a radio option (or any widget reruns the script)
UserSelectWindow(choice) ==
    /\ pc = "idle"
    /\ profile = "history"
    /\ batches < MaxBatches
    /\ SelectWindow(window, choice).raised = ""
    /\ window' = SelectWindow(window, choice).window
    /\ pc' = "load"
    /\ clicked' = FALSE
    /\ run_fetched' = 0
    /\ run_result' = "running"
    /\ UNCHANGED << now, hist_cache, hist_refreshed_at, refresh_enabled, caller, loc_i,
                    loc_cache, ret_err, batches, batch_at, shown >>
    /\ UNCHANGED << fnVars, cacheVars, predVars, panelVars >>

\* the user clicks "Refresh history", which the browser allows on an enabled button
UserClickRefresh ==
    /\ pc = "idle"
    /\ batches < MaxBatches
    /\ refresh_enabled
    /\ pc' = "load"
    /\ clicked' = TRUE
    /\ run_fetched' = 0
    /\ run_result' = "running"
    /\ UNCHANGED << now, hist_cache, hist_refreshed_at, window, refresh_enabled, caller,
                    loc_i, loc_cache, ret_err, batches, batch_at, shown >>
    /\ UNCHANGED << fnVars, cacheVars, predVars, panelVars >>

\* entry of refresh_all_histories (line 164)
BeginBatch(c) ==
    /\ pc' = "fetch"
    /\ caller' = c
    /\ loc_i' = 1
    /\ loc_cache' = EmptyCache
    /\ batches' = batches + 1
    /\ batch_at' = now
    /\ run_fetched' = run_fetched + 1

\* line 250: the first-time load runs while hist_refreshed_at is still 0.0
NeedsFirstLoad(at) == at = 0

FirstTimeLoad ==
    /\ pc = "load"
    /\ NeedsFirstLoad(hist_refreshed_at)
    /\ BeginBatch("load")
    /\ UNCHANGED << now, hist_cache, hist_refreshed_at, window, clicked, refresh_enabled,
                    ret_err, run_result, shown >>
    /\ UNCHANGED << fnVars, cacheVars, predVars, panelVars >>

SkipFirstLoad ==
    /\ pc = "load"
    /\ ~NeedsFirstLoad(hist_refreshed_at)
    /\ pc' = "cooldown"
    /\ UNCHANGED << now, hist_cache, hist_refreshed_at, window, clicked, refresh_enabled,
                    caller, loc_i, loc_cache, ret_err, batches, batch_at, run_fetched,
                    run_result, shown >>
    /\ UNCHANGED << fnVars, cacheVars, predVars, panelVars >>

---------------------------------------------------------------------------
\* refresh_all_histories (lines 158-179), one window of its loop per step

\* a failing window ends the loop but the windows fetched so far are returned
FailureReturnsPartial(cache, w, e) == [cache |-> cache, err |-> NoErr]

\* lines 167-168: return None, f"{w}: {err or 'no data'}"
FailureReturn(cache, w, e) == [cache |-> EmptyCache, err |-> e]

\* lines 175-179
Item(f, js, b) == [df |-> [rows |-> f.rows, cols |-> f.cols], as_of |-> js.as_of, batch |-> b]

\* line 167: err or not js or "data" not in js
Failed(g) == g.err # NoErr \/ g.js.kind # "data"

Reason(g) == IF g.err # NoErr THEN g.err ELSE "no data"

\* the fetched windows are appended to the rows the session already holds
ReplaceMerging(old, new) ==
    [w \in DOMAIN new |->
        IF w \in DOMAIN old THEN [new[w] EXCEPT !.df.rows = old[w].df.rows \o @] ELSE new[w]]

\* lines 253 and 280: st.session_state.hist_cache = cache
Replace(old, new) == new

\* the first-time load stores the batch and leaves the refresh time for later
StoreOnLoadCacheOnly(r, cache, at, t) ==
    IF r.err = NoErr THEN [cache |-> r.cache, at |-> at] ELSE [cache |-> cache, at |-> at]

\* lines 252-254: the first-time load stores the batch unless it failed
StoreOnLoad(r, cache, at, t) ==
    IF r.err = NoErr THEN [cache |-> Replace(cache, r.cache), at |-> t]
    ELSE [cache |-> cache, at |-> at]

\* the click handler stores whatever refresh_all_histories returned
StoreOnClickUnchecked(r, cache, at, t) == [cache |-> r.cache, at |-> t]

\* lines 277-281: the click handler warns on failure and stores otherwise
StoreOnClick(r, cache, at, t) ==
    IF r.err # NoErr THEN [cache |-> cache, at |-> at]
    ELSE [cache |-> Replace(cache, r.cache), at |-> t]

\* refresh_all_histories returns r to the caller; after the click handler the
\* script reruns from the top (st.rerun, line 282)
Return(r) ==
    /\ ret_err' = r.err
    /\ caller' = "none"
    /\ loc_i' = 0
    /\ loc_cache' = EmptyCache
    /\ IF caller = "load"
       THEN LET s == StoreOnLoad(r, hist_cache, hist_refreshed_at, now) IN
            /\ hist_cache' = s.cache
            /\ hist_refreshed_at' = s.at
            /\ pc' = "cooldown"
            /\ UNCHANGED << clicked, run_fetched >>
       ELSE LET s == StoreOnClick(r, hist_cache, hist_refreshed_at, now) IN
            /\ hist_cache' = s.cache
            /\ hist_refreshed_at' = s.at
            /\ pc' = "load"
            /\ clicked' = FALSE
            /\ run_fetched' = 0
    /\ UNCHANGED << now, window, refresh_enabled, batches, batch_at, run_result, shown >>

\* the request of one window fails for good, or its body carries no "data"
FetchFails ==
    /\ pc = "fetch"
    /\ \E resps \in UpstreamHistory(Windows[loc_i]) :
         LET g == GetJson(resps, DefaultRetries) IN
         /\ Failed(g)
         /\ Return(FailureReturn(loc_cache, Windows[loc_i], Reason(g)))
    /\ UNCHANGED << fnVars, cacheVars, predVars, panelVars >>

\* the body is normalized and kept in the local dict; the last window returns it
FetchStores ==
    /\ pc = "fetch"
    /\ \E resps \in UpstreamHistory(Windows[loc_i]) :
         LET g == GetJson(resps, DefaultRetries) IN
         /\ ~Failed(g)
         /\ \E f \in NormalizeXrp(g.js.data) :
              /\ ~f.raised
              /\ LET c == Put(loc_cache, Windows[loc_i], Item(f, g.js, batches)) IN
                 IF loc_i < Len(Windows)
                 THEN /\ loc_i' = loc_i + 1
                      /\ loc_cache' = c
                      /\ UNCHANGED << now, hist_cache, hist_refreshed_at, window, pc, clicked,
                                      refresh_enabled, caller, ret_err, batches, batch_at,
                                      run_fetched, run_result, shown >>
                 ELSE Return([cache |-> c, err |-> NoErr])
    /\ UNCHANGED << fnVars, cacheVars, predVars, panelVars >>

\* df["ts"] raises KeyError, which nothing catches: the page run ends with the
\* traceback on screen, and what it had not rendered yet is gone
FetchRaises ==
    /\ pc = "fetch"
    /\ \E resps \in UpstreamHistory(Windows[loc_i]) :
         LET g == GetJson(resps, DefaultRetries) IN
         /\ ~Failed(g)
         /\ \E f \in NormalizeXrp(g.js.data) : f.raised
    /\ pc' = "idle"
    /\ run_result' = "raised"
    /\ clicked' = FALSE
    /\ refresh_enabled' = IF caller = "click" THEN refresh_enabled ELSE FALSE
    /\ caller' = "none"
    /\ loc_i' = 0
    /\ loc_cache' = EmptyCache
    /\ shown' = NoShown
    /\ pred_enabled' = FALSE
    /\ UNCHANGED << now, hist_cache, hist_refreshed_at, window, ret_err, batches, batch_at,
                    run_fetched >>
    /\ UNCHANGED << fnVars, cacheVars, predKept, panelVars >>

---------------------------------------------------------------------------
\* Cooldown and the "Refresh history" button (lines 257-282)

\* line 259
Remaining(t, at) == Max(0, HISTORY_TTL - (t - at))

\* line 260
Disabled(t, at) == Remaining(t, at) > 0

\* st.button: False without a click; True for a click on a button that is still
\* rendered enabled. For a click whose run renders the button disabled, the
\* framework either drops the click (the widget's identity changed with its help
\* text) or reports it (identity by key): both happen, depending on its version.
ButtonReturns(c, d) == IF ~c THEN { FALSE } ELSE IF d THEN { TRUE, FALSE } ELSE { TRUE }

ButtonNotPressed ==
    /\ pc = "cooldown"
    /\ FALSE \in ButtonReturns(clicked, Disabled(now, hist_refreshed_at))
    /\ refresh_enabled' = ~Disabled(now, hist_refreshed_at)
    /\ pc' = "chart"
    /\ UNCHANGED << now, hist_cache, hist_refreshed_at, window, clicked, caller, loc_i,
                    loc_cache, ret_err, batches, batch_at, run_fetched, run_result, shown >>
    /\ UNCHANGED << fnVars, cacheVars, predVars, panelVars >>

RefreshHandler ==
    /\ pc = "cooldown"
    /\ TRUE \in ButtonReturns(clicked, Disabled(now, hist_refreshed_at))
    /\ refresh_enabled' = ~Disabled(now, hist_refreshed_at)
    /\ BeginBatch("click")
    /\ UNCHANGED << now, hist_cache, hist_refreshed_at, window, clicked, ret_err,
                    run_result, shown >>
    /\ UNCHANGED << fnVars, cacheVars, predVars, panelVars >>

---------------------------------------------------------------------------
\* Price History chart (lines 292-319)

InLastDay(t, r) == r.ts >= t - DaySec

\* lines 301-303
DayCutoff(rows, t) == SelectSeq(rows, LAMBDA r : InLastDay(t, r))

\* lines 297-303: the frame the KPIs and the chart are computed from
ReadSeries(cache, w, t) ==
    IF w = "day" THEN DayCutoff(cache[w].df.rows, t) ELSE cache[w].df.rows

\* the chart code trims the cached frame in place
AfterChartTrims(cache, w) ==
    IF w = "day" THEN cache
    ELSE [cache EXCEPT ![w].df.rows = IF Len(@) > 0 THEN Tail(@) ELSE @]

\* line 319 adds a column to df, which for every window but "day" is the cached frame
AfterChart(cache, w) ==
    IF w = "day" THEN cache
    ELSE [cache EXCEPT ![w].df.cols = @ \cup { "ts_utc_str" }]

\* lines 293-295: st.info and st.stop(); nothing below the chart is rendered
ChartStops ==
    /\ pc = "chart"
    /\ window \notin DOMAIN hist_cache
    /\ pc' = "idle"
    /\ run_result' = "stopped"
    /\ shown' = NoShown
    /\ clicked' = FALSE
    /\ pred_enabled' = FALSE
    /\ UNCHANGED << now, hist_cache, hist_refreshed_at, window, refresh_enabled, caller,
                    loc_i, loc_cache, ret_err, batches, batch_at, run_fetched >>
    /\ UNCHANGED << fnVars, cacheVars, predKept, panelVars >>

ChartRenders ==
    /\ pc = "chart"
    /\ window \in DOMAIN hist_cache
    /\ shown' = [window |-> window, batch |-> hist_cache[window].batch,
                 rows |-> ReadSeries(hist_cache, window, now)]
    /\ hist_cache' = AfterChart(hist_cache, window)
    /\ pc' = "predict"
    /\ run_result' = "rendered"
    /\ clicked' = FALSE
    /\ UNCHANGED << now, hist_refreshed_at, window, refresh_enabled, caller, loc_i,
                    loc_cache, ret_err, batches, batch_at, run_fetched >>
    /\ UNCHANGED << fnVars, cacheVars, predVars, panelVars >>

---------------------------------------------------------------------------

---------------------------------------------------------------------------
\* OHLC fetches of the Bitcoin, Ethereum and Solana pages

\* an upstream candle: [ts, open, high, low, close, ...] as it arrives
RawCandle(t, o, h, l, c) == [ts |-> t, open |-> o, high |-> h, low |-> l, close |-> c]

\* pd.to_datetime(df["ts"], unit=...) and astype(float), which raise on a value
\* that does not parse
ParseCandles(rows) ==
    [i \in 1..Len(rows) |->
        [ts |-> ToDatetime(rows[i].ts), open |-> ToNumeric(rows[i].open),
         high |-> ToNumeric(rows[i].high), low |-> ToNumeric(rows[i].low),
         close |-> ToNumeric(rows[i].close)]]

BadTs(rows) == \E i \in 1..Len(rows) : rows[i].ts.k # "iso"

BadNumber(rows) ==
    \E i \in 1..Len(rows) :
        \/ rows[i].open.k # "num"
        \/ rows[i].high.k # "num"
        \/ rows[i].low.k # "num"
        \/ rows[i].close.k # "num"

KrakenDays == 90

\* df.tail(days)
TailN(rows, n) == IF Len(rows) > n THEN SubSeq(rows, Len(rows) - n + 1, Len(rows)) ELSE rows

\* the except branch: st.warning(...) and return pd.DataFrame()
WarnedEmpty == [raised |-> FALSE, warned |-> TRUE, rows |-> << >>]

Raises == [raised |-> TRUE, warned |-> FALSE, rows |-> << >>]

Frame(rows) == [raised |-> FALSE, warned |-> FALSE, rows |-> rows]

\* Bitcoin.py get_kraken_ohlc(days, pair, interval): every exception is caught
get_kraken_ohlc(resp, days) ==
    IF resp.status # "ok" \/ BadTs(resp.rows) \/ BadNumber(resp.rows)
    THEN { WarnedEmpty }
    ELSE { Frame(IF days > 0 THEN TailN(t, days) ELSE t) : t \in SortValues(ParseCandles(resp.rows)) }

\* Ethereum.py fetch_kraken_ohlc(pair, interval): no try, no sort; the rows keep
\* the upstream order and every exception leaves the function
fetch_kraken_ohlc(resp) ==
    IF resp.status # "ok" \/ BadTs(resp.rows) \/ BadNumber(resp.rows)
    THEN { Raises }
    ELSE { Frame(ParseCandles(resp.rows)) }

\* Solana.py get_sol_ohlc(days): timestamps parsed and sorted, prices left as
\* they arrive; every exception is caught
get_sol_ohlc(resp) ==
    IF resp.status # "ok" \/ BadTs(resp.rows)
    THEN { WarnedEmpty }
    ELSE { Frame(t) : t \in SortValues(ParseCandles(resp.rows)) }

\* Ripple.py refresh_all_histories, one window's frame (lines 170-173)
xrp_history(rows) ==
    { [raised |-> f.raised, warned |-> FALSE, rows |-> f.rows] : f \in NormalizeXrp(rows) }

\* what the page does with the fetched frame
\*   Bitcoin 195-197: empty frame -> warning and st.stop()
\*   Ethereum 195: the exception ends the run
\*   Solana 132-134: empty frame -> "No data available" and the page goes on
PageAfterFetch(page, r) ==
    IF r.raised THEN "raised"
    ELSE IF page = "btc_ohlc" /\ Len(r.rows) = 0 THEN "stopped"
    ELSE "continues"

---------------------------------------------------------------------------
\* Preset inputs of the Bitcoin page (Bitcoin.py lines 580-615)

\* series.iloc[idx] of pandas: positions count from 0, a negative position counts
\* from the end, and a position outside the series raises IndexError
ILoc(series, idx) ==
    IF idx >= 0 /\ idx < Len(series) THEN [raised |-> FALSE, value |-> series[idx + 1]]
    ELSE IF idx < 0 /\ idx >= -Len(series)
         THEN [raised |-> FALSE, value |-> series[Len(series) + idx + 1]]
    ELSE [raised |-> TRUE, value |-> NaN]

\* safe_get(series, idx, default): the exception of iloc gives the default
safe_get(series, idx, default) ==
    IF ILoc(series, idx).raised THEN default ELSE ILoc(series, idx).value

\* build_inputs_from_indices(df_daily, idx_today): the three lags of the close
build_inputs_from_indices(close, idx_today) ==
    [close_lag1 |-> safe_get(close, idx_today - 1, NaN),
     close_lag3 |-> safe_get(close, idx_today - 3, NaN),
     close_lag7 |-> safe_get(close, idx_today - 7, NaN)]

---------------------------------------------------------------------------
\* Manual prediction form of the Solana page (Pages/Solana.py lines 262-325)

\* the number inputs of the form, by the name of the request parameter
Features ==
    { "close", "open", "low", "volume", "marketCap", "price_range", "volume_per_marketcap" }

\* every field is sent, a zero too
ParamOrNoneKeepsZero(v) == [some |-> TRUE, v |-> v]

\* lines 312-318: v if v > 0 else None
ParamOrNone(v) == IF v > 0 THEN [some |-> TRUE, v |-> v] ELSE [some |-> FALSE, v |-> 0]

\* lines 311-320: the params dict of the request, without the None values
SolParams(form) ==
    LET p == [k \in Features |-> ParamOrNone(form[k])] IN
    [k \in { f \in Features : p[f].some } |-> p[k].v]

---------------------------------------------------------------------------
\* Prediction adapters of the four coin pages

\* one HTTP exchange with a prediction endpoint: the status code (0 when
\* requests.get raises) and what the body decodes to
Http(code, body) == [code |-> code, body |-> body]

\* the endpoint answers the i-th request with rs[i] and goes on answering like
\* the last element
At(rs, i) == rs[IF i <= Len(rs) THEN i ELSE Len(rs)]

Delivered(n) == [ok |-> TRUE, requests |-> n]

Refused(n) == [ok |-> FALSE, requests |-> n]

\* the except branch asks twice more before it gives up
CallPredictExceptTwice(rs, retries, n) ==
    IF retries > 0
    THEN LET r == At(rs, n + 1) IN
         IF r.code = 200 /\ r.body # "nojson" THEN Delivered(n + 1)
         ELSE LET q == At(rs, n + 2) IN
              IF q.code = 200 /\ q.body # "nojson" THEN Delivered(n + 2) ELSE Refused(n + 2)
    ELSE Refused(n)

\* Bitcoin.py call_predict, the except branch (lines 782-792) after n requests
CallPredictExcept(rs, retries, n) ==
    IF retries > 0
    THEN LET r == At(rs, n + 1) IN
         IF r.code = 200 /\ r.body # "nojson" THEN Delivered(n + 1) ELSE Refused(n + 1)
    ELSE Refused(n)

\* Bitcoin.py call_predict(url, payload, retries=1, timeout=20), lines 772-781
call_predict(rs, retries) ==
    LET r1 == At(rs, 1) IN
    IF r1.code = 0 THEN CallPredictExcept(rs, retries, 1)
    ELSE IF r1.code = 200
    THEN IF r1.body # "nojson" THEN Delivered(1) ELSE CallPredictExcept(rs, retries, 1)
    ELSE IF retries > 0 /\ r1.code \in { 502, 503, 504, 524 }
    THEN LET r2 == At(rs, 2) IN
         IF r2.code = 0 THEN CallPredictExcept(rs, retries, 2)
         ELSE IF r2.code = 200
         THEN IF r2.body # "nojson" THEN Delivered(2) ELSE CallPredictExcept(rs, retries, 2)
         ELSE Refused(2)
    ELSE Refused(1)

\* the body of the request that delivered
DeliveredBody(rs, d) == At(rs, d.requests).body

\* Bitcoin.py panel, lines 860-866: st.error on failure; data["predicted_high_next_day"]
\* raises KeyError on a body without the field
BtcPredict(rs) ==
    LET d == call_predict(rs, 1) IN
    IF ~d.ok THEN [ok |-> FALSE, error_shown |-> TRUE, raised |-> FALSE, requests |-> d.requests]
    ELSE IF DeliveredBody(rs, d) = "nokeys"
    THEN [ok |-> FALSE, error_shown |-> FALSE, raised |-> TRUE, requests |-> d.requests]
    ELSE [ok |-> TRUE, error_shown |-> FALSE, raised |-> FALSE, requests |-> d.requests]

EthMaxRetries == 60

\* Ethereum.py lines 355-364: the attempt loop
RECURSIVE EthAttempts(_, _)
EthAttempts(rs, attempt) ==
    IF attempt > EthMaxRetries THEN Refused(EthMaxRetries)
    ELSE LET r == At(rs, attempt) IN
         IF r.code = 200 /\ r.body # "nojson" THEN Delivered(attempt)
         ELSE EthAttempts(rs, attempt + 1)

\* Ethereum.py lines 366-396: st.error when no attempt succeeded; strptime of a
\* missing predicted_date raises ValueError
EthPredict(rs) ==
    LET d == EthAttempts(rs, 1) IN
    IF ~d.ok THEN [ok |-> FALSE, error_shown |-> TRUE, raised |-> FALSE, requests |-> d.requests]
    ELSE IF DeliveredBody(rs, d) = "nokeys"
    THEN [ok |-> FALSE, error_shown |-> FALSE, raised |-> TRUE, requests |-> d.requests]
    ELSE [ok |-> TRUE, error_shown |-> FALSE, raised |-> FALSE, requests |-> d.requests]

\* Solana.py lines 325-354: one request; any other status and any exception end
\* in st.error
SolPredict(rs) ==
    LET r == At(rs, 1) IN
    IF r.code = 200 /\ r.body = "good"
    THEN [ok |-> TRUE, error_shown |-> FALSE, raised |-> FALSE, requests |-> 1]
    ELSE [ok |-> FALSE, error_shown |-> TRUE, raised |-> FALSE, requests |-> 1]

\* the exchanges as get_json sees them: raise_for_status and r.json() turn every
\* answer but a decodable 2xx into a RequestException
AsGetJsonResps(rs) ==
    [i \in 1..DefaultRetries |->
        LET r == At(rs, i) IN
        IF r.code = 200 /\ r.body # "nojson"
        THEN Ok([kind |-> r.body, data |-> << >>, as_of |-> ""])
        ELSE Exc]

\* Ripple.py lines 391-397: fetch_predict_cached -> get_json("predict/XRP");
\* a result with err, or without "yhat", shows the warning
XrpPredict(rs) ==
    LET g == GetJson(AsGetJsonResps(rs), DefaultRetries) IN
    IF g.err = NoErr /\ g.js.kind = "good"
    THEN [ok |-> TRUE, error_shown |-> FALSE, raised |-> FALSE, requests |-> g.attempts]
    ELSE [ok |-> FALSE, error_shown |-> TRUE, raised |-> FALSE, requests |-> g.attempts]

---------------------------------------------------------------------------
\* Prediction section of the XRP page (Ripple.py lines 364-397)

COOLDOWN_SEC == 300

PREDICT_TTL == 300

\* bound on the prediction fetches of one session
MaxPredicts == 2

\* one cooldown for both buttons, counted from the history refresh
CooldownStartShared(pred_at, hist_at) == hist_at

\* line 378: the prediction cooldown counts from st.session_state.last_pred_time
CooldownStart(pred_at, hist_at) == pred_at

\* lines 377-379
PredDisabled(t, at) == Max(0, COOLDOWN_SEC - (t - at)) > 0

\* st.button without a key: the widget is identified by its label and help text,
\* so a click made on the enabled button is not delivered to a run that renders
\* it disabled
PredictButtonReturns(c, d) == c /\ ~d

\* what predict/XRP answers to the attempts of one get_json call
PredUpstream ==
    { << Http(200, "good") >>, << Http(503, ""), Http(200, "good") >>,
      << Http(200, "nokeys") >>, << Http(503, "") >> }

\* the handler keeps every result it is given
PredictStoreAny(r, lp, lt, t) ==
    [pred |-> [kind |-> r.js.kind, id |-> r.id], at |-> t, attempt |-> "ok"]

\* lines 393-397: not err and pred and "yhat" in pred
PredictStore(r, lp, lt, t) ==
    IF r.err = NoErr /\ r.js.kind = "good"
    THEN [pred |-> [kind |-> r.js.kind, id |-> r.id], at |-> t, attempt |-> "ok"]
    ELSE [pred |-> lp, at |-> lt, attempt |-> "failed"]

\* the user clicks "Predict next-day HIGH", which the browser allows on an
\* enabled button
UserClickPredict ==
    /\ pc = "idle"
    /\ profile = "predict"
    /\ pred_enabled
    /\ predicts < MaxPredicts
    /\ pc' = "load"
    /\ pred_clicked' = TRUE
    /\ clicked' = FALSE
    /\ run_fetched' = 0
    /\ run_result' = "running"
    /\ UNCHANGED << now, hist_cache, hist_refreshed_at, window, refresh_enabled, caller,
                    loc_i, loc_cache, ret_err, batches, batch_at, shown >>
    /\ UNCHANGED << profile, last_prediction, last_pred_time, pred_memo, pred_enabled,
                    pred_net, last_attempt, predicts >>
    /\ UNCHANGED << fnVars, cacheVars, panelVars >>

\* the handler body, given the result of fetch_predict_cached()
PredictHandler(r) ==
    LET s == PredictStore(r, last_prediction, last_pred_time, now) IN
    /\ last_prediction' = s.pred
    /\ last_pred_time' = s.at
    /\ last_attempt' = s.attempt
    /\ pred_enabled' = TRUE
    /\ pred_clicked' = FALSE
    /\ pc' = "idle"

\* the button is rendered and reports no click
PredictNotPressed ==
    /\ pc = "predict"
    /\ ~PredictButtonReturns(pred_clicked, PredDisabled(now, CooldownStart(last_pred_time, hist_refreshed_at)))
    /\ pred_enabled' = ~PredDisabled(now, CooldownStart(last_pred_time, hist_refreshed_at))
    /\ pred_clicked' = FALSE
    /\ pred_net' = 0
    /\ pc' = "idle"
    /\ UNCHANGED << profile, last_prediction, last_pred_time, pred_memo, last_attempt, predicts >>
    /\ UNCHANGED xrpFrame
    /\ UNCHANGED << fnVars, cacheVars, panelVars >>

\* the handler runs and fetch_predict_cached() is answered by st.cache_data
PredictHit ==
    /\ pc = "predict"
    /\ PredictButtonReturns(pred_clicked, PredDisabled(now, CooldownStart(last_pred_time, hist_refreshed_at)))
    /\ pred_memo.has /\ now - pred_memo.at < PREDICT_TTL
    /\ PredictHandler(pred_memo)
    /\ pred_net' = 0
    /\ UNCHANGED << profile, pred_memo, predicts >>
    /\ UNCHANGED xrpFrame
    /\ UNCHANGED << fnVars, cacheVars, panelVars >>

\* the handler runs and fetch_predict_cached() calls get_json("predict/XRP"),
\* whose return value st.cache_data keeps
PredictMiss ==
    /\ pc = "predict"
    /\ PredictButtonReturns(pred_clicked, PredDisabled(now, CooldownStart(last_pred_time, hist_refreshed_at)))
    /\ ~(pred_memo.has /\ now - pred_memo.at < PREDICT_TTL)
    /\ \E rs \in PredUpstream :
         LET g == GetJson(AsGetJsonResps(rs), DefaultRetries)
             r == [has |-> TRUE, js |-> g.js, err |-> g.err, id |-> predicts + 1, at |-> now]
         IN /\ pred_memo' = r
            /\ pred_net' = g.attempts
            /\ PredictHandler(r)
    /\ predicts' = predicts + 1
    /\ UNCHANGED profile
    /\ UNCHANGED xrpFrame
    /\ UNCHANGED << fnVars, cacheVars, panelVars >>

---------------------------------------------------------------------------
\* st.cache_data and the Bitcoin page's use of it (Bitcoin.py lines 148, 193-197)

CachedFns == { "get_kraken_ohlc", "get_sol_ohlc(90)", "get_sol_ohlc(365)", "get_sol_metrics" }

\* Solana.py line 108: @st.cache_data(ttl=600) of get_sol_ohlc
SOL_OHLC_TTL == 600

\* Solana.py line 192: @st.cache_data(ttl=300) of get_sol_metrics
SOL_METRICS_TTL == 300

\* the ttl of each cached function
TtlOf(f) ==
    CASE f = "get_kraken_ohlc" -> KRAKEN_TTL
      [] f \in { "get_sol_ohlc(90)", "get_sol_ohlc(365)" } -> SOL_OHLC_TTL
      [] f = "get_sol_metrics" -> SOL_METRICS_TTL

NoEntry == [has |-> FALSE, value |-> Frame(<< >>), at |-> 0]

\* @st.cache_data(ttl=...): an entry answers calls until it is ttl seconds old
CacheFresh(e, t, ttl) == e.has /\ t - e.at < ttl

K1 == RawCandle(Iso(T0 - DaySec), Num(1), Num(2), Num(1), Num(1))

K2 == RawCandle(Iso(T0), Num(1), Num(2), Num(1), Num(2))

KrakenUpstream ==
    IF profile = "panels"
    THEN { [status |-> "exc", rows |-> << >>], [status |-> "ok", rows |-> << K1 >> ] }
    ELSE { [status |-> "exc", rows |-> << >>], [status |-> "ok", rows |-> << K1 >>],
           [status |-> "ok", rows |-> << K2, K1 >>] }

\* Bitcoin.py lines 829-832
InitPanel ==
    /\ pred_history = << >>
    /\ panel_results = [m \in {} |-> 0]
    /\ panel_clicks = 0
    /\ panel_last = [mode |-> "", call_ok |-> FALSE, ended |-> "none"]

InitCacheOff ==
    /\ cd_store = [f \in CachedFns |-> NoEntry]
    /\ kr_read = [value |-> Frame(<< >>), net |-> FALSE]
    /\ reads = 0
    /\ sol_runs = 0
    /\ opc = "off"
    /\ InitPanel

\* what a session on a page with st.cache_data exercises: the OHLC cache or the
\* panels of the Bitcoin page, or the Solana page
PageProfiles == { "history", "panels", "solana" }

InitCacheOn ==
    /\ profile \in PageProfiles
    /\ cd_store = [f \in CachedFns |-> NoEntry]
    /\ kr_read = [value |-> Frame(<< >>), net |-> FALSE]
    /\ reads = 0
    /\ sol_runs = 0
    /\ opc = "idle"
    /\ InitPanel

\* time passes between the runs of the Bitcoin page
CacheTick ==
    /\ opc = "idle"
    /\ now < T0 + MaxTicks * (KRAKEN_TTL \div 2)
    /\ now' = now + KRAKEN_TTL \div 2
    /\ UNCHANGED << hist_cache, hist_refreshed_at, window, pc, clicked, refresh_enabled,
                    caller, loc_i, loc_cache, ret_err, batches, batch_at, run_fetched,
                    run_result, shown >>
    /\ UNCHANGED << fnVars, cacheVars, predVars, panelVars >>

\* df_ohlc = get_kraken_ohlc(90), answered by the cache (in a session that
\* exercises the panels, every run after the first is the run of a click)
BitcoinRunHit ==
    /\ opc = "idle"
    /\ reads < MaxReads
    /\ profile # "solana"
    /\ profile = "panels" => reads = 0
    /\ CacheFresh(cd_store["get_kraken_ohlc"], now, KRAKEN_TTL)
    /\ kr_read' = [value |-> cd_store["get_kraken_ohlc"].value, net |-> FALSE]
    /\ reads' = reads + 1
    /\ UNCHANGED << cd_store, opc, sol_runs >>
    /\ UNCHANGED << xrpVars, fnVars, predVars, panelVars >>

\* df_ohlc = get_kraken_ohlc(90), computed and memoized, whatever it returns
BitcoinRunMiss ==
    /\ opc = "idle"
    /\ reads < MaxReads
    /\ profile # "solana"
    /\ profile = "panels" => reads = 0
    /\ ~CacheFresh(cd_store["get_kraken_ohlc"], now, KRAKEN_TTL)
    /\ \E resp \in KrakenUpstream : \E r \in get_kraken_ohlc(resp, KrakenDays) :
         /\ cd_store' = [cd_store EXCEPT !["get_kraken_ohlc"] = [has |-> TRUE, value |-> r, at |-> now]]
         /\ kr_read' = [value |-> r, net |-> TRUE]
    /\ reads' = reads + 1
    /\ UNCHANGED << opc, sol_runs >>
    /\ UNCHANGED << xrpVars, fnVars, predVars, panelVars >>

\* Solana.py lines 217-218: "Refresh Metrics" calls st.cache_data.clear(), which
\* empties the memo of every cached function of the app
ClearCacheData ==
    /\ opc = "idle"
    /\ profile = "history"
    /\ \E f \in CachedFns : cd_store[f].has
    /\ cd_store' = [f \in CachedFns |-> NoEntry]
    /\ UNCHANGED << kr_read, reads, opc, sol_runs >>
    /\ UNCHANGED << xrpVars, fnVars, predVars, panelVars >>

\* bound on the runs of the Solana page in one session
MaxSolRuns == 3

\* what CoinGecko answers to one request of the Solana page
SolUpstream == { [status |-> "exc", rows |-> << >>], [status |-> "ok", rows |-> << K1 >>] }

\* Solana.py get_sol_metrics (lines 192-207): the dict of the market data; an
\* exception leaves the function
get_sol_metrics(resp) == IF resp.status # "ok" THEN Raises ELSE Frame(resp.rows)

\* a call of a function under @st.cache_data(ttl): a fresh entry answers it,
\* else the function runs and what it returns is stored; an exception stores nothing
CachedCall(store, f, r, t) ==
    IF CacheFresh(store[f], t, TtlOf(f)) \/ r.raised THEN store
    ELSE [store EXCEPT ![f] = [has |-> TRUE, value |-> r, at |-> t]]

\* Solana.py line 218: st.cache_data.clear()
ClearAll(store) == [f \in DOMAIN store |-> NoEntry]

\* one run of the Solana page (lines 125-126, 217-221): both OHLC frames are
\* read, a click on "Refresh Metrics" clears the cache, the metrics are read
SolanaRun(click) ==
    /\ opc = "idle"
    /\ profile = "solana"
    /\ sol_runs < MaxSolRuns
    /\ click => sol_runs >= 1
    /\ sol_runs' = sol_runs + 1
    /\ \E a, b, c \in SolUpstream :
       \E r90 \in get_sol_ohlc(a) : \E r365 \in get_sol_ohlc(b) :
         LET s1 == CachedCall(cd_store, "get_sol_ohlc(90)", r90, now)
             s2 == CachedCall(s1, "get_sol_ohlc(365)", r365, now)
             s3 == IF click THEN ClearAll(s2) ELSE s2
         IN cd_store' = CachedCall(s3, "get_sol_metrics", get_sol_metrics(c), now)
    /\ UNCHANGED << kr_read, reads, opc >>
    /\ UNCHANGED << xrpVars, fnVars, predVars, panelVars >>

---------------------------------------------------------------------------
\* Prediction panels of the Bitcoin page (Bitcoin.py lines 829-902)

\* bound on the clicks on Predict buttons in one session
MaxPanelClicks == 3

\* mode_title of the three panels (yesterday, today, manual)
Modes == { "Yesterday", "Today", "Manual" }

\* what the prediction endpoint answers to the requests of one call_predict
PanelUpstream ==
    { << Http(200, "good") >>, << Http(503, ""), Http(200, "good") >>,
      << Http(200, "nokeys") >>, << Http(500, "") >>, << Http(0, "") >> }

\* lines 869-877: the result dict of the click number no, which produced its ts,
\* model, pred, spot, delta, pct and payload
PanelResult(no) == [no |-> no]

\* lines 879: {**result, "mode": mode_title}
HistoryEntry(result, mode) == [no |-> result.no, mode |-> mode]

\* the result is appended to the history and the panel keeps its older result
PanelStoreHistoryOnly(mode, result, results, history) ==
    [results |-> IF mode \in DOMAIN results THEN results
                 ELSE [m \in (DOMAIN results) \cup { mode } |->
                          IF m = mode THEN result ELSE results[m]],
     history |-> Append(history, HistoryEntry(result, mode))]

\* lines 878-879
PanelStore(mode, result, results, history) ==
    [results |-> [m \in (DOMAIN results) \cup { mode } |->
                    IF m = mode THEN result ELSE results[m]],
     history |-> Append(history, HistoryEntry(result, mode))]

\* lines 855-883: the handler of a clicked panel, given what the endpoint answers
PanelHandler(mode, rs) ==
    LET d == BtcPredict(rs)
        s == PanelStore(mode, PanelResult(panel_clicks + 1), panel_results, pred_history)
    IN
    /\ panel_last' = [mode |-> mode, call_ok |-> call_predict(rs, 1).ok,
                      ended |-> IF d.raised THEN "raised" ELSE IF d.ok THEN "stored" ELSE "error"]
    /\ IF d.ok
       THEN panel_results' = s.results /\ pred_history' = s.history
       ELSE UNCHANGED << panel_results, pred_history >>

\* the user clicks the Predict button of a panel, which the last run rendered; the
\* run of the click calls get_kraken_ohlc(90) again (lines 193-197) and, unless
\* it stops there, reaches the panel
PanelClick(mode) ==
    /\ opc = "idle"
    /\ profile = "panels"
    /\ reads >= 1
    /\ Len(kr_read.value.rows) > 0
    /\ panel_clicks < MaxPanelClicks
    /\ panel_clicks' = panel_clicks + 1
    /\ \E resp \in KrakenUpstream : \E r \in get_kraken_ohlc(resp, KrakenDays) :
         LET hit == CacheFresh(cd_store["get_kraken_ohlc"], now, KRAKEN_TTL)
             v == IF hit THEN cd_store["get_kraken_ohlc"].value ELSE r
         IN
         /\ cd_store' = IF hit THEN cd_store
                        ELSE [cd_store EXCEPT !["get_kraken_ohlc"] =
                                 [has |-> TRUE, value |-> r, at |-> now]]
         /\ kr_read' = [value |-> v, net |-> ~hit]
         /\ IF Len(v.rows) = 0
            THEN /\ panel_last' = [mode |-> mode, call_ok |-> FALSE, ended |-> "stopped"]
                 /\ UNCHANGED << panel_results, pred_history >>
            ELSE \E rs \in PanelUpstream : PanelHandler(mode, rs)
    /\ UNCHANGED << reads, opc, sol_runs >>
    /\ UNCHANGED << xrpVars, fnVars, predVars >>

\* a session stays on one page: the XRP page keeps its state in st.session_state,
\* the Bitcoin page in st.cache_data, and neither reads the other's
Init ==
    \/ InitXrp /\ InitCacheOff /\ InitFnIdle
    \/ InitXrpOff /\ InitCacheOn /\ InitFnIdle

Next ==
    \/ Tick
    \/ \E choice \in Labels : UserSelectWindow(choice)
    \/ UserClickRefresh
    \/ FirstTimeLoad
    \/ SkipFirstLoad
    \/ FetchFails
    \/ FetchStores
    \/ FetchRaises
    \/ ButtonNotPressed
    \/ RefreshHandler
    \/ ChartStops
    \/ ChartRenders
    \/ UserClickPredict
    \/ PredictNotPressed
    \/ PredictHit
    \/ PredictMiss
    \/ CacheTick
    \/ BitcoinRunHit
    \/ BitcoinRunMiss
    \/ ClearCacheData
    \/ \E mode \in Modes : PanelClick(mode)
    \/ \E click \in BOOLEAN : SolanaRun(click)

Spec == Init /\ [][Next]_vars

---------------------------------------------------------------------------
\* SpecFn: the functions above, each applied once to an input drawn from the
\* bounded sets below

MaxRows == 2

MaxResps == 2

SeqsUpTo(S, n) == UNION { [1..k -> S] : k \in 0..n }

RawTs == { Iso(1), Iso(2), Bad }

CandleSet ==
    { RawCandle(t, o, h, Num(1), c) :
        t \in RawTs, o \in { Num(1), Num(2) }, h \in { Num(1), Num(2) }, c \in { Num(1), Bad } }

OhlcResps ==
    { [status |-> st, rows |-> << >>] : st \in { "exc", "apierror" } }
        \cup { [status |-> "ok", rows |-> r] : r \in SeqsUpTo(CandleSet, MaxRows) }

XrpRowSet == { RawRow(t, q) : t \in RawTs, q \in { Num(1), Num(2), Bad } }

Exchanges ==
    { Http(200, "good"), Http(200, "nojson"), Http(200, "nokeys"),
      Http(503, ""), Http(500, ""), Http(0, "") }

RespSeqs == SeqsUpTo(Exchanges, MaxResps) \ { << >> }

OhlcFns == { "btc_ohlc", "eth_ohlc", "sol_ohlc" }

PredictFns == { "btc_predict", "eth_predict", "sol_predict", "xrp_predict" }

\* bound on the rows of the daily frame given to build_inputs_from_indices
MaxLen == 8

\* the close column of a daily frame of n rows: the rows have distinct closes
CloseColumn(n) == [i \in 1..n |-> i]

\* Bitcoin.py lines 643-648: the frame is not empty and the presets are built
\* for its last row and for the row before it
PresetInputs ==
    UNION { { [NoFn EXCEPT !.close = CloseColumn(size), !.idx = size - 1],
              [NoFn EXCEPT !.close = CloseColumn(size), !.idx = size - 2] } : size \in 1..MaxLen }

\* bound on the retries argument of get_json
MaxRetries == 3

\* a call of get_json with its retries argument and what the API answers to
\* each attempt
GetJsonInputs ==
    UNION { { [NoFn EXCEPT !.retries = many, !.resps = r] :
                r \in [1..many -> { Exc, Ok(NoData) }] } : many \in 0..MaxRetries }

\* what the user leaves in the number inputs of the form (min_value=0.0)
FormInputs == { [NoFn EXCEPT !.form = f] : f \in [Features -> { 0, 1, 2 }] }

Fns == OhlcFns \cup PredictFns
          \cup { "xrp_history", "window", "build_inputs", "get_json", "sol_params" }

Inputs(f) ==
    IF f \in OhlcFns THEN { [NoFn EXCEPT !.resp = r] : r \in OhlcResps }
    ELSE IF f \in PredictFns THEN { [NoFn EXCEPT !.rs = r] : r \in RespSeqs }
    ELSE IF f = "xrp_history" THEN { [NoFn EXCEPT !.rows = r] : r \in SeqsUpTo(XrpRowSet, MaxRows) }
    ELSE IF f = "build_inputs" THEN PresetInputs
    ELSE IF f = "get_json" THEN GetJsonInputs
    ELSE IF f = "sol_params" THEN FormInputs
    ELSE { [NoFn EXCEPT !.sel = a, !.choice = c] :
             a \in WindowSet \cup { "hour" }, c \in Labels \cup { "Hour", "day" } }

InitFn ==
    /\ InitXrpOff
    /\ InitCacheOff
    /\ profile = "history"
    /\ \E f \in Fns : fn = f /\ inp \in Inputs(f)
    /\ out = NoOut

FetchOut(r) ==
    [done |-> TRUE, raised |-> r.raised, warned |-> r.warned, rows |-> r.rows,
     page |-> PageAfterFetch(fn, r)]

ApplyXrpHistory ==
    /\ fn = "xrp_history" /\ ~out.done
    /\ \E r \in xrp_history(inp.rows) : out' = FetchOut(r)
    /\ UNCHANGED << fn, inp >>
    /\ UNCHANGED << xrpVars, cacheVars, predVars, panelVars >>

ApplyGetKrakenOhlc ==
    /\ fn = "btc_ohlc" /\ ~out.done
    /\ \E r \in get_kraken_ohlc(inp.resp, KrakenDays) : out' = FetchOut(r)
    /\ UNCHANGED << fn, inp >>
    /\ UNCHANGED << xrpVars, cacheVars, predVars, panelVars >>

ApplyFetchKrakenOhlc ==
    /\ fn = "eth_ohlc" /\ ~out.done
    /\ \E r \in fetch_kraken_ohlc(inp.resp) : out' = FetchOut(r)
    /\ UNCHANGED << fn, inp >>
    /\ UNCHANGED << xrpVars, cacheVars, predVars, panelVars >>

ApplyGetSolOhlc ==
    /\ fn = "sol_ohlc" /\ ~out.done
    /\ \E r \in get_sol_ohlc(inp.resp) : out' = FetchOut(r)
    /\ UNCHANGED << fn, inp >>
    /\ UNCHANGED << xrpVars, cacheVars, predVars, panelVars >>

PredictOut(r) ==
    [done |-> TRUE, ok |-> r.ok, error_shown |-> r.error_shown, raised |-> r.raised,
     requests |-> r.requests]

ApplyBtcPredict ==
    /\ fn = "btc_predict" /\ ~out.done
    /\ out' = PredictOut(BtcPredict(inp.rs))
    /\ UNCHANGED << fn, inp >>
    /\ UNCHANGED << xrpVars, cacheVars, predVars, panelVars >>

ApplyEthPredict ==
    /\ fn = "eth_predict" /\ ~out.done
    /\ out' = PredictOut(EthPredict(inp.rs))
    /\ UNCHANGED << fn, inp >>
    /\ UNCHANGED << xrpVars, cacheVars, predVars, panelVars >>

ApplySolPredict ==
    /\ fn = "sol_predict" /\ ~out.done
    /\ out' = PredictOut(SolPredict(inp.rs))
    /\ UNCHANGED << fn, inp >>
    /\ UNCHANGED << xrpVars, cacheVars, predVars, panelVars >>

ApplyXrpPredict ==
    /\ fn = "xrp_predict" /\ ~out.done
    /\ out' = PredictOut(XrpPredict(inp.rs))
    /\ UNCHANGED << fn, inp >>
    /\ UNCHANGED << xrpVars, cacheVars, predVars, panelVars >>

ApplySelectWindow ==
    /\ fn = "window" /\ ~out.done
    /\ out' = [done |-> TRUE, raised |-> SelectWindow(inp.sel, inp.choice).raised,
               window |-> SelectWindow(inp.sel, inp.choice).window]
    /\ UNCHANGED << fn, inp >>
    /\ UNCHANGED << xrpVars, cacheVars, predVars, panelVars >>

ApplyBuildInputs ==
    /\ fn = "build_inputs" /\ ~out.done
    /\ out' = [done |-> TRUE, lags |-> build_inputs_from_indices(inp.close, inp.idx)]
    /\ UNCHANGED << fn, inp >>
    /\ UNCHANGED << xrpVars, cacheVars, predVars, panelVars >>

ApplyGetJson ==
    /\ fn = "get_json" /\ ~out.done
    /\ out' = [done |-> TRUE, ret |-> GetJson(inp.resps, inp.retries)]
    /\ UNCHANGED << fn, inp >>
    /\ UNCHANGED << xrpVars, cacheVars, predVars, panelVars >>

ApplySolParams ==
    /\ fn = "sol_params" /\ ~out.done
    /\ out' = [done |-> TRUE, params |-> SolParams(inp.form)]
    /\ UNCHANGED << fn, inp >>
    /\ UNCHANGED << xrpVars, cacheVars, predVars, panelVars >>

FnNext ==
    \/ ApplyXrpHistory
    \/ ApplyBuildInputs
    \/ ApplyGetJson
    \/ ApplySolParams
    \/ ApplyGetKrakenOhlc
    \/ ApplyFetchKrakenOhlc
    \/ ApplyGetSolOhlc
    \/ ApplyBtcPredict
    \/ ApplyEthPredict
    \/ ApplySolPredict
    \/ ApplyXrpPredict
    \/ ApplySelectWindow

SpecFn == InitFn /\ [][FnNext]_vars

---------------------------------------------------------------------------
\* Properties of the XRP page session (Spec)

\* a refresh_all_histories call returned to its caller in this step
Returned == pc = "fetch" /\ pc' \in { "cooldown", "load" }

\* the chart of this step reads the window and the batch the previous chart showed,
\* inside the TTL of that batch
RereadWithinTtl ==
    /\ pc = "chart"
    /\ window \in DOMAIN hist_cache
    /\ shown.window = window
    /\ shown.batch = hist_cache[window].batch
    /\ now - hist_refreshed_at < HISTORY_TTL

CachedRows(cache) == [w \in DOMAIN cache |-> cache[w].df.rows]

\* C1: a manual refresh request that falls inside the cooldown window of
\* hist_refreshed_at is refused: the click handler never starts a
\* refresh_all_histories batch less than HISTORY_TTL after hist_refreshed_at,
\* so two requests in one window make one fetch.
C1_RefreshRefusedInCooldown ==
    (pc = "fetch" /\ caller = "click") => batch_at - hist_refreshed_at >= HISTORY_TTL

\* C2: when get_json exhausts its retries and refresh_all_histories returns
\* (None, err), the cached Series of every window stay as they were.
C2_ExhaustedFetchKeepsCache ==
    [][(Returned /\ ret_err' = "exhausted") => hist_cache' = hist_cache]_vars

C2_Witness ==
    /\ pc = "load"
    /\ ret_err = "exhausted"
    /\ DOMAIN hist_cache = WindowSet
    /\ batches > hist_cache["day"].batch

\* C3: hist_cache is the initial empty cache or holds all four windows, all
\* produced by one refresh_all_histories batch.
C3_CacheIsOneBatch ==
    \/ hist_cache = EmptyCache
    \/ /\ DOMAIN hist_cache = WindowSet
       /\ \A w \in WindowSet : /\ hist_cache[w].batch = hist_cache["day"].batch
                               /\ hist_cache[w].batch >= 1

\* a later batch is half-way through its windows while the earlier batch is
\* what the session holds
C3_Witness ==
    /\ pc = "fetch"
    /\ loc_i = 3
    /\ DOMAIN loc_cache = { "day", "week" }
    /\ DOMAIN hist_cache = WindowSet
    /\ hist_cache["day"].batch < batches

\* the Bitcoin page runs in this step and the memo of get_kraken_ohlc is inside its TTL
BtcRereadWithinTtl ==
    /\ reads' = reads + 1
    /\ CacheFresh(cd_store["get_kraken_ohlc"], now, KRAKEN_TTL)

\* C4 as stated: two reads of one (symbol, window) inside the TTL with no forced
\* refresh in between return the identical Series and make no network access
\* (XRP: two page runs for one window show the same Series; Bitcoin: two
\* get_kraken_ohlc calls).
C4_RereadShowsSameSeries ==
    [][/\ (RereadWithinTtl /\ pc' = "predict") => (shown'.rows = shown.rows /\ run_fetched = 0)
       /\ BtcRereadWithinTtl => (kr_read'.value = kr_read.value /\ ~kr_read'.net)]_vars

\* C4 amended: such a reread makes no network access and leaves the cached rows
\* of every window as they were; on the Bitcoin page it returns the identical
\* frame; on the XRP page it shows the rows shown before, except that in the day
\* window the rows older than now - 1 day are left out.
C4_RereadShowsCachedRows ==
    [][/\ (RereadWithinTtl /\ pc' = "predict") =>
             /\ run_fetched = 0
             /\ CachedRows(hist_cache') = CachedRows(hist_cache)
             /\ shown'.rows = IF window = "day" THEN DayCutoff(shown.rows, now) ELSE shown.rows
             /\ shown'.rows = ReadSeries(hist_cache', window, now)
       /\ BtcRereadWithinTtl => (kr_read'.value = kr_read.value /\ ~kr_read'.net)]_vars

\* the day window was read twice from one batch and the second read left a row out
C4_Witness ==
    /\ pc = "idle"
    /\ run_result = "rendered"
    /\ shown.window = "day"
    /\ now - hist_refreshed_at < HISTORY_TTL
    /\ shown.batch = hist_cache["day"].batch
    /\ Len(shown.rows) < Len(hist_cache["day"].df.rows)

---------------------------------------------------------------------------
\* Properties of the fetch, normalize and predict functions (SpecFn)

StrictlyIncreasing(rows) == \A i \in 1..(Len(rows) - 1) : rows[i].ts < rows[i + 1].ts

\* the raw rows a normalizing function was given
InputRows == IF fn = "xrp_history" THEN inp.rows ELSE inp.resp.rows

AllParse(rows) ==
    \A i \in 1..Len(rows) :
        /\ rows[i].ts.k = "iso"
        /\ IF fn = "xrp_history" THEN rows[i].price.k = "num"
           ELSE rows[i].open.k = "num" /\ rows[i].high.k = "num" /\ rows[i].close.k = "num"

DuplicatePairs(rows) ==
    { p \in (1..Len(rows)) \X (1..Len(rows)) : p[1] < p[2] /\ rows[p[1]].ts = rows[p[2]].ts }

\* C5: every Series produced by normalization (refresh_all_histories,
\* get_kraken_ohlc, get_sol_ohlc) has strictly increasing, unique timestamps,
\* also for payloads with repeated timestamps.
C5_TimestampsStrictlyIncreasing ==
    (out.done /\ fn \in { "xrp_history", "btc_ohlc", "sol_ohlc" } /\ ~out.raised)
        => StrictlyIncreasing(out.rows)

\* C6: N upstream rows of which two share a timestamp normalize to N-1 rows in
\* ascending order, the duplicated timestamp keeping the later row's values.
C6_DuplicateResolvedToLaterRow ==
    (/\ out.done
     /\ fn \in { "xrp_history", "btc_ohlc" }
     /\ Len(InputRows) > 0
     /\ AllParse(InputRows)
     /\ Cardinality(DuplicatePairs(InputRows)) = 1)
        => /\ Len(out.rows) = Len(InputRows) - 1
           /\ StrictlyIncreasing(out.rows)
           /\ \A p \in DuplicatePairs(InputRows) :
                \E i \in 1..Len(out.rows) :
                    /\ out.rows[i].ts = InputRows[p[2]].ts.v
                    /\ IF fn = "xrp_history"
                       THEN out.rows[i].price = InputRows[p[2]].price.v
                       ELSE out.rows[i].open = InputRows[p[2]].open.v

WellFormed(c) == c.low <= c.open /\ c.open <= c.high /\ c.low <= c.close /\ c.close <= c.high

\* C7: every candle of every Series an OHLC fetch returns satisfies
\* low <= open <= high and low <= close <= high; a payload with a candle that
\* does not is surfaced as an error and not passed through.
C7_CandlesWellFormed ==
    (out.done /\ fn \in OhlcFns /\ inp.resp.status = "ok" /\ AllParse(inp.resp.rows))
        => \A i \in 1..Len(out.rows) : WellFormed(out.rows[i])

\* C8: every supported window label maps to exactly one upstream window
\* parameter, different labels to different parameters, and any other window
\* identifier is rejected with an error: no window is selected for it.
C8_WindowMappingTotalAndStrict ==
    (out.done /\ fn = "window")
        => /\ (inp.sel \in WindowSet /\ inp.choice \in Labels)
                => (out.raised = "" /\ out.window \in WindowSet)
           /\ (inp.sel \notin WindowSet \/ inp.choice \notin Labels)
                => (out.raised # "" /\ out.window = "")
           /\ \A a \in Labels, b \in Labels :
                (SelectWindow(inp.sel, a).window = SelectWindow(inp.sel, b).window
                    /\ inp.sel \in WindowSet) => a = b

C8_Witness ==
    /\ out.done
    /\ fn = "window"
    /\ inp.sel = "week"
    /\ inp.choice = "Hour"
    /\ out.raised = "KeyError"

\* C9: a prediction endpoint that answers 503 and then 200 gets its payload
\* delivered by the adapter of each coin page, with no error shown.
C9_TransientFailureHidden ==
    (out.done /\ fn \in PredictFns /\ inp.rs = << Http(503, ""), Http(200, "good") >>)
        => (out.ok /\ ~out.error_shown)

\* C10: every upstream failure in a data or prediction fetch of a coin page is
\* caught at the fetch boundary: no fetch raises into the page run.
C10_FailuresAreNonFatal ==
    (out.done /\ fn \in OhlcFns \cup PredictFns \cup { "xrp_history" }) => ~out.raised

---------------------------------------------------------------------------
\* Retry loops

\* the most requests one call of each adapter's retry loop can make:
\* call_predict two in its try block and one in its except branch, the Ethereum
\* loop max_retries, get_json its retries argument
RequestLimit(f) ==
    IF f = "btc_predict" THEN 3
    ELSE IF f = "eth_predict" THEN EthMaxRetries
    ELSE IF f = "xrp_predict" THEN DefaultRetries
    ELSE 1

\* C11: every retry loop is bounded and ends in a value: for every sequence of
\* upstream responses get_json makes at most `retries` (3) requests, the
\* Ethereum loop at most 60 and call_predict at most 3, and each of them
\* returns a success value or an error value (the adapter then delivers the
\* payload, shows the error, or fails on the delivered body).
C11_RetryLoopsBounded ==
    (out.done /\ fn \in PredictFns)
        => /\ out.requests >= 1
           /\ out.requests <= RequestLimit(fn)
           /\ fn = "btc_predict" =>
                 /\ out.requests = call_predict(inp.rs, 1).requests
                 /\ call_predict(inp.rs, 1).ok = ~out.error_shown
           /\ fn = "eth_predict" =>
                 /\ out.requests = EthAttempts(inp.rs, 1).requests
                 /\ EthAttempts(inp.rs, 1).ok = ~out.error_shown
           /\ fn = "xrp_predict" =>
                 /\ out.requests = GetJson(AsGetJsonResps(inp.rs), DefaultRetries).attempts
                 /\ GetJson(AsGetJsonResps(inp.rs), DefaultRetries).err
                        \in { NoErr, "exhausted" }
           /\ (out.ok \/ out.error_shown \/ out.raised)

\* every loop ran to its limit against an upstream that never answers well
C11_Witness ==
    /\ out.done
    /\ fn = "btc_predict"
    /\ inp.rs = << Http(503, ""), Http(0, "") >>
    /\ out.requests = RequestLimit("btc_predict")
    /\ out.error_shown

---------------------------------------------------------------------------
\* Staleness, creation and mutation of the cached histories (Spec)

\* C12: a page run that reads the cache HISTORY_TTL or more after
\* hist_refreshed_at (or with nothing loaded yet) has fetched the histories in
\* that run, without a manual refresh click.
C12_StaleReadFetches ==
    (pc = "chart" /\ now - hist_refreshed_at >= HISTORY_TTL) => run_fetched >= 1

\* C13: a cache entry is created only by a successful fetch: no memoized result
\* of a cached fetch function is the empty frame of its failure branch, so a run
\* that gets that frame has just tried the upstream; and hist_cache holds only
\* items that a refresh_all_histories batch fetched.
C13_FailedFetchNotStored ==
    /\ \A f \in CachedFns : cd_store[f].has => ~cd_store[f].value.warned
    /\ (reads >= 1 /\ kr_read.value.warned) => kr_read.net
    /\ \A w \in DOMAIN hist_cache : hist_cache[w].batch >= 1

\* C14: the cached Series change only when a refresh replaces them: every step
\* of a page run other than the return of refresh_all_histories (selecting a
\* window, the cooldown, the KPIs and the chart) leaves hist_cache as it was,
\* rows and columns.
C14_ReadsLeaveCacheAlone ==
    [][~Returned => hist_cache' = hist_cache]_vars

---------------------------------------------------------------------------
\* Cooldown state and cache together (Spec)

\* hist_cache holds the four histories of one fetched batch
HoldsHistories(cache) == DOMAIN cache = WindowSet

\* C15: hist_cache and hist_refreshed_at are updated together: a
\* refresh_all_histories call that returns without error (first-time load or
\* manual refresh) sets hist_cache to its batch and hist_refreshed_at to the
\* time of the return in one step, a call that returns an error changes
\* neither, and hist_refreshed_at is non-zero exactly when hist_cache holds
\* fetched histories.
C15_CooldownAndCacheTogether ==
    [][/\ (Returned /\ ret_err' = NoErr) =>
             /\ HoldsHistories(hist_cache')
             /\ \A w \in WindowSet : hist_cache'[w].batch = batches
             /\ hist_refreshed_at' = now
       /\ (Returned /\ ret_err' # NoErr) =>
             /\ hist_cache' = hist_cache
             /\ hist_refreshed_at' = hist_refreshed_at
       /\ (hist_refreshed_at # 0) <=> HoldsHistories(hist_cache)
       /\ (hist_refreshed_at' # 0) <=> HoldsHistories(hist_cache')
       /\ hist_refreshed_at = 0 => hist_cache = EmptyCache]_vars

\* a manual refresh succeeded later in the session and replaced both
C15_Witness ==
    /\ pc = "load"
    /\ ret_err = NoErr
    /\ hist_refreshed_at > T0
    /\ hist_refreshed_at = now
    /\ HoldsHistories(hist_cache)
    /\ hist_cache["day"].batch = batches
    /\ batches >= 2

\* C16: a fetch whose payload leaves no valid row after normalization is
\* reported as an error: the page run does not end in an exception, and no
\* window of hist_cache holds a Series without rows (so no such fetch was stored
\* or started the cooldown).
C16_EmptySeriesReported ==
    /\ run_result # "raised"
    /\ \A w \in DOMAIN hist_cache : Len(hist_cache[w].df.rows) > 0

---------------------------------------------------------------------------
\* Normalization of the history payload (SpecFn)

\* the input rows whose ts and price both parse, in upstream order, as values
ParsableRows(rows) ==
    LET keep == SelectSeq(rows, LAMBDA r : r.ts.k = "iso" /\ r.price.k = "num") IN
    [i \in 1..Len(keep) |-> [ts |-> keep[i].ts.v, price |-> keep[i].price.v]]

\* C17: the Series refresh_all_histories builds for a window consists of exactly
\* the input rows whose ts parses as a timestamp and whose price parses as a
\* number, each once, in ascending order of ts; rows with an unparsable ts or
\* price are dropped, and no unparsable value appears as zero or as a missing
\* value.
C17_ExactlyTheParsableRows ==
    (out.done /\ fn = "xrp_history" /\ ~out.raised)
        => LET valid == ParsableRows(inp.rows) IN
           /\ Len(out.rows) = Len(valid)
           /\ IsAscending(out.rows)
           /\ \E p \in Permutations(1..Len(valid)) :
                out.rows = [i \in 1..Len(valid) |-> valid[p[i]]]
           /\ \A i \in 1..Len(out.rows) :
                /\ out.rows[i].ts # NaT
                /\ out.rows[i].price # NaN
                /\ out.rows[i].price # 0

\* a payload of two rows, the earlier one with an unparsable price
C17_Witness ==
    /\ out.done
    /\ fn = "xrp_history"
    /\ inp.rows = << RawRow(Iso(2), Num(1)), RawRow(Iso(1), Bad) >>
    /\ out.rows = << [ts |-> 2, price |-> 1] >>

---------------------------------------------------------------------------
\* Order of fetches in one session (Spec)

\* what a refresh stored for each window: rows, as_of and the batch it came from
Stored(cache) ==
    [w \in DOMAIN cache |->
        [rows |-> cache[w].df.rows, as_of |-> cache[w].as_of, batch |-> cache[w].batch]]

C19_OneFetchPerRun ==
    /\ run_fetched <= 1
    /\ pc = "fetch" <=> caller # "none"

---------------------------------------------------------------------------
\* SpecReq: one upstream HTTP request of a user-triggered action, from the
\* requests.get call to its answer or its timeout, in seconds

\* requests.get without a timeout argument: timeout=None, the call waits for as
\* long as the upstream keeps the connection open
NoTimeout == -1

\* how long the model follows a request that has no timeout
MaxWaitSec == 40

\* every requests.get call of the pages
RequestSites ==
    { "Bitcoin.get_kraken_ohlc", "Bitcoin.ticker", "Bitcoin.call_predict", "Bitcoin.spot",
      "Ethereum.fetch_kraken_ohlc", "Ethereum.predict",
      "Ripple.get_json",
      "Solana.get_sol_ohlc", "Solana.get_sol_metrics", "Solana.predict",
      "Pages.Ethereum.fetch_kraken_ohlc", "Pages.Ethereum.predict",
      "Pages.Solana.ohlc", "Pages.Solana.metrics", "Pages.Solana.predict" }

\* the timeout argument of each call
TimeoutOf(site) ==
    CASE site = "Bitcoin.get_kraken_ohlc" -> 20
      [] site = "Bitcoin.ticker" -> 15
      [] site = "Bitcoin.call_predict" -> 20
      [] site = "Bitcoin.spot" -> 15
      [] site = "Ethereum.fetch_kraken_ohlc" -> NoTimeout
      [] site = "Ethereum.predict" -> 30
      [] site = "Ripple.get_json" -> 15
      [] site = "Solana.get_sol_ohlc" -> 20
      [] site = "Solana.get_sol_metrics" -> 20
      [] site = "Solana.predict" -> 25
      [] site = "Pages.Ethereum.fetch_kraken_ohlc" -> NoTimeout
      [] site = "Pages.Ethereum.predict" -> 1200
      [] site = "Pages.Solana.ohlc" -> 20
      [] site = "Pages.Solana.metrics" -> 20
      [] site = "Pages.Solana.predict" -> 25

HasTimeout(site) == TimeoutOf(site) # NoTimeout

NoRequest == [done |-> FALSE, phase |-> "idle", elapsed |-> 0]

InitReq ==
    /\ InitXrpOff
    /\ InitCacheOff
    /\ profile = "history"
    /\ fn \in RequestSites
    /\ inp = NoFn
    /\ out = NoRequest

\* the page run reaches the call
IssueRequest ==
    /\ fn \in RequestSites
    /\ out.phase = "idle"
    /\ out' = [out EXCEPT !.phase = "waiting"]
    /\ UNCHANGED << fn, inp >>
    /\ UNCHANGED << xrpVars, cacheVars, predVars, panelVars >>

\* a second passes while the call blocks the page run
ReqTick ==
    /\ fn \in RequestSites
    /\ out.phase = "waiting"
    /\ out.elapsed < (IF HasTimeout(fn) THEN TimeoutOf(fn) ELSE MaxWaitSec)
    /\ out' = [out EXCEPT !.elapsed = @ + 1]
    /\ UNCHANGED << fn, inp >>
    /\ UNCHANGED << xrpVars, cacheVars, predVars, panelVars >>

\* the upstream answers, which it may never do
ReqRespond ==
    /\ fn \in RequestSites
    /\ out.phase = "waiting"
    /\ out' = [out EXCEPT !.phase = "answered", !.done = TRUE]
    /\ UNCHANGED << fn, inp >>
    /\ UNCHANGED << xrpVars, cacheVars, predVars, panelVars >>

\* requests raises Timeout once the timeout has passed without an answer
ReqTimeout ==
    /\ fn \in RequestSites
    /\ out.phase = "waiting"
    /\ HasTimeout(fn)
    /\ out.elapsed >= TimeoutOf(fn)
    /\ out' = [out EXCEPT !.phase = "timed_out", !.done = TRUE]
    /\ UNCHANGED << fn, inp >>
    /\ UNCHANGED << xrpVars, cacheVars, predVars, panelVars >>

ReqNext ==
    \/ IssueRequest
    \/ ReqTick
    \/ ReqRespond
    \/ ReqTimeout

\* the page run goes on, time passes and the HTTP library's timer fires; whether
\* the upstream answers is up to the upstream
SpecReq ==
    /\ InitReq
    /\ [][ReqNext]_vars
    /\ WF_vars(IssueRequest)
    /\ WF_vars(ReqTick)
    /\ WF_vars(ReqTimeout)

\* C20: every upstream HTTP request is issued with an explicit timeout, so every
\* request a user-triggered action waits on is eventually answered or timed
\* out, also when the upstream never responds.
C20_EveryRequestTimesOut ==
    /\ [](out.phase = "waiting" => HasTimeout(fn))
    /\ (out.phase = "waiting") ~> (out.phase \in { "answered", "timed_out" })

---------------------------------------------------------------------------
\* call_predict (SpecFn)

\* C21: call_predict issues at most two HTTP requests per call, the initial one
\* and one retry, whatever status codes and exceptions the requests meet, and
\* it returns a (ok, data) pair for every such combination.
C21_CallPredictAtMostTwoRequests ==
    (out.done /\ fn = "btc_predict")
        => /\ out.requests = call_predict(inp.rs, 1).requests
           /\ call_predict(inp.rs, 1).ok \in BOOLEAN
           /\ out.requests <= 2

---------------------------------------------------------------------------
\* Prediction section of the XRP page (Spec)

\* the Predict handler runs in this step
PredictHandlerRuns ==
    /\ pc = "predict"
    /\ pc' = "idle"
    /\ PredictButtonReturns(pred_clicked, PredDisabled(now, last_pred_time))

\* C22: after a failed prediction attempt the next click on "Predict next-day
\* HIGH" issues a new HTTP request, and no run of the handler ends in the
\* failure warning without having asked the endpoint: a failed result is never
\* served from the fetch_predict_cached cache.
C22_FailedPredictionNotCached ==
    [][PredictHandlerRuns =>
          /\ last_attempt = "failed" => pred_net' >= 1
          /\ last_attempt' = "failed" => pred_net' >= 1]_vars

\* inside the cooldown that a successful prediction started
InPredCooldown == last_pred_time # 0 /\ now - last_pred_time < COOLDOWN_SEC

\* what the prediction cooldown guards, whoever shows the button
PredictionsSpacedAndValid ==
    /\ (PredictHandlerRuns /\ last_attempt' = "ok") =>
          /\ now - last_pred_time >= COOLDOWN_SEC
          /\ last_pred_time' = now
          /\ last_prediction'.kind = "good"
    /\ (PredictHandlerRuns /\ last_attempt' = "failed") =>
          /\ last_pred_time' = last_pred_time
          /\ last_prediction' = last_prediction
    /\ ~PredictHandlerRuns =>
          /\ last_pred_time' = last_pred_time
          /\ last_prediction' = last_prediction
    /\ last_prediction' # NoPrediction => last_prediction'.kind = "good"

\* C23 as stated: from a successful prediction until COOLDOWN_SEC have elapsed
\* since last_pred_time the Predict button is disabled, so no two successful
\* predictions are less than 300 s apart; a failed prediction updates neither
\* last_pred_time nor last_prediction, and last_prediction is only ever a
\* payload with "yhat".
C23_ButtonDisabledInCooldown ==
    /\ [](InPredCooldown => ~pred_enabled)
    /\ [][PredictionsSpacedAndValid]_vars

\* C23 amended: every page run inside the cooldown renders the Predict button
\* disabled and does not run its handler, so no two successful predictions are
\* less than 300 s apart; the run that made the prediction leaves the button
\* on screen as it rendered it, enabled, until the next run; a failed
\* prediction updates neither last_pred_time nor last_prediction, and
\* last_prediction is only ever a payload with "yhat".
C23_NoPredictionInCooldown ==
    [][/\ PredictionsSpacedAndValid
       /\ (pc = "predict" /\ pc' = "idle" /\ InPredCooldown) =>
             /\ ~pred_enabled'
             /\ ~PredictHandlerRuns
             /\ pred_net' = 0
       /\ (PredictHandlerRuns /\ last_attempt' = "ok") => pred_enabled']_vars

\* a click made inside the cooldown, on the button the predicting run left
\* enabled, was answered by a run that rendered the button disabled
C23_Witness ==
    /\ pc = "idle"
    /\ profile = "predict"
    /\ last_attempt = "ok"
    /\ last_prediction.kind = "good"
    /\ InPredCooldown
    /\ ~pred_enabled
    /\ run_result = "rendered"

---------------------------------------------------------------------------
\* History refresh and prediction side by side (Spec)

\* neither handler writes the other's session state
HandlersKeepApart ==
    /\ Returned =>
          /\ last_prediction' = last_prediction
          /\ last_pred_time' = last_pred_time
          /\ pred_memo' = pred_memo
          /\ pred_enabled' = pred_enabled
    /\ pc = "predict" =>
          /\ hist_cache' = hist_cache
          /\ hist_refreshed_at' = hist_refreshed_at
          /\ refresh_enabled' = refresh_enabled
    /\ (pc = "cooldown" /\ pc' # "cooldown") =>
          refresh_enabled' = ~Disabled(now, hist_refreshed_at)

\* C24 as stated: history refresh and prediction are independent: a refresh,
\* successful or failed, leaves last_prediction and last_pred_time unchanged and
\* has no say in whether the Predict button is enabled, which at the end of
\* every page run is what the prediction cooldown alone makes it; a prediction
\* leaves hist_cache and hist_refreshed_at unchanged and has no say in whether
\* the Refresh button is enabled.
C24_RefreshAndPredictIndependent ==
    [][/\ HandlersKeepApart
       /\ (pc # "idle" /\ pc' = "idle") =>
             pred_enabled' = ~PredDisabled(now, last_pred_time)]_vars

\* C24 amended: the two handlers write disjoint session state and each
\* button's disabled flag is computed from its own timestamp alone; but the
\* Predict button is rendered only by page runs that reach the prediction
\* section: a run that stops at "No history loaded yet" or ends inside a
\* history fetch leaves the page without it, so the first successful history
\* load or refresh makes the Predict button available.
C24_IndependentOnceHistoryLoaded ==
    [][/\ HandlersKeepApart
       /\ (pc = "predict" /\ pc' = "idle") =>
             pred_enabled' = ~PredDisabled(now, last_pred_time)
       /\ (pc \in { "chart", "fetch" } /\ pc' = "idle") => ~pred_enabled'
       /\ pc' = "predict" => HoldsHistories(hist_cache')]_vars

\* a history refresh succeeded after a prediction and the prediction is still there
C24_Witness ==
    /\ pc = "load"
    /\ ret_err = NoErr
    /\ batches >= 2
    /\ hist_refreshed_at = now
    /\ last_prediction.kind = "good"
    /\ last_pred_time # 0
    /\ last_pred_time < hist_refreshed_at

---------------------------------------------------------------------------
\* Prediction panels of the Bitcoin page (Spec)

\* a click on a panel's Predict button is handled in this step
PanelClicked == panel_clicks' = panel_clicks + 1

IsPrefix(a, b) == Len(a) <= Len(b) /\ SubSeq(b, 1, Len(a)) = a

\* C25: every click on a Predict button whose API call succeeds appends exactly
\* one entry to pred_history, after the entries already there, and sets
\* panel_results[mode_title]; a click whose call fails leaves both unchanged;
\* and no step removes, reorders or modifies an existing history entry.
C25_SuccessfulClickAppendsOne ==
    [][/\ IsPrefix(pred_history, pred_history')
       /\ (PanelClicked /\ panel_last'.call_ok) =>
             /\ Len(pred_history') = Len(pred_history) + 1
             /\ pred_history'[Len(pred_history')].mode = panel_last'.mode
             /\ panel_last'.mode \in DOMAIN panel_results'
             /\ panel_results'[panel_last'.mode].no = panel_clicks'
       /\ (PanelClicked /\ ~panel_last'.call_ok) =>
             /\ pred_history' = pred_history
             /\ panel_results' = panel_results
       /\ ~PanelClicked =>
             /\ pred_history' = pred_history
             /\ panel_results' = panel_results]_vars

\* the entries of pred_history that belong to one mode
OfMode(history, mode) == SelectSeq(history, LAMBDA e : e.mode = mode)

\* C26: in every reachable session state of the Bitcoin page, a mode with an
\* entry in panel_results has it equal, field by field, to the most recent
\* pred_history entry of that mode, and every mode that occurs in pred_history
\* has an entry in panel_results.
C26_PanelShowsLatestOfHistory ==
    /\ \A mode \in DOMAIN panel_results :
         LET own == OfMode(pred_history, mode) IN
         /\ Len(own) > 0
         /\ HistoryEntry(panel_results[mode], mode) = own[Len(own)]
    /\ \A i \in 1..Len(pred_history) : pred_history[i].mode \in DOMAIN panel_results

\* a panel has been predicted twice, and another panel in between
C26_Witness ==
    \E i, j, k \in 1..Len(pred_history) :
        /\ i < j /\ j < k
        /\ pred_history[i].mode = pred_history[k].mode
        /\ pred_history[j].mode # pred_history[i].mode
        /\ panel_results[pred_history[k].mode].no = pred_history[k].no

---------------------------------------------------------------------------
\* "Refresh Metrics" of the Solana page (Spec)

\* C27: "Refresh Metrics" invalidates the cache of get_sol_metrics only: no
\* step removes or replaces the memoized result of another cached function
\* (get_sol_ohlc(90), get_sol_ohlc(365), another page's get_kraken_ohlc) while
\* that result is inside its own TTL, so none is fetched again before then.
C27_RefreshMetricsClearsMetricsOnly ==
    [][\A f \in CachedFns \ { "get_sol_metrics" } :
          CacheFresh(cd_store[f], now, TtlOf(f)) => cd_store'[f] = cd_store[f]]_vars

---------------------------------------------------------------------------
\* Preset inputs of the Bitcoin page (SpecFn)

\* the close of the row k positions before idx, NaN when there is no such row
CloseBefore(close, idx, k) ==
    IF idx - k >= 0 /\ idx - k < Len(close) THEN close[idx - k + 1] ELSE NaN

\* C28: build_inputs_from_indices returns close_lag1, close_lag3 and close_lag7
\* equal to the close of the row exactly 1, 3 and 7 positions before idx_today,
\* and NaN whenever that row does not exist; never the close of another row.
C28_LagsFromEarlierRowsOnly ==
    (fn = "build_inputs" /\ out.done) =>
        /\ out.lags.close_lag1 = CloseBefore(inp.close, inp.idx, 1)
        /\ out.lags.close_lag3 = CloseBefore(inp.close, inp.idx, 3)
        /\ out.lags.close_lag7 = CloseBefore(inp.close, inp.idx, 7)

---------------------------------------------------------------------------
\* get_json (SpecFn)

\* the attempts of the call that failed
FailedAttempts == { k \in 1..out.ret.attempts : inp.resps[k].status # "ok" }

\* the first attempt that the API answers, 0 when there is none
FirstSuccess ==
    IF \E k \in 1..inp.retries : inp.resps[k].status = "ok"
    THEN CHOOSE k \in 1..inp.retries :
            /\ inp.resps[k].status = "ok"
            /\ \A j \in 1..(k - 1) : inp.resps[j].status # "ok"
    ELSE 0

\* at most retries requests; (json, None) at the first success; (None, error) of
\* the last attempt when all fail
GetJsonReturns ==
    /\ out.ret.attempts <= inp.retries
    /\ FirstSuccess > 0 =>
         /\ out.ret.attempts = FirstSuccess
         /\ out.ret.js = inp.resps[FirstSuccess].body
         /\ out.ret.err = NoErr
    /\ (FirstSuccess = 0 /\ inp.retries >= 1) =>
         /\ out.ret.attempts = inp.retries
         /\ out.ret.js = NoJs
         /\ out.ret.err # NoErr

---------------------------------------------------------------------------
\* Manual prediction form of the Solana page (SpecFn)

\* C30: the request of the Solana manual prediction form carries a feature
\* parameter exactly when the user entered a value greater than zero for it,
\* with the value entered; when every field is left at 0 it carries no parameter.
C30_ParamsAreThePositiveFields ==
    (fn = "sol_params" /\ out.done) =>
        /\ DOMAIN out.params = { k \in Features : inp.form[k] > 0 }
        /\ \A k \in DOMAIN out.params : out.params[k] = inp.form[k]
        /\ (\A k \in Features : inp.form[k] = 0) => DOMAIN out.params = {}

\* the form was submitted with the close filled in and the volume left at 0
C30_Witness ==
    /\ fn = "sol_params" /\ out.done
    /\ inp.form["close"] > 0
    /\ inp.form["volume"] = 0
    /\ "close" \in DOMAIN out.params
    /\ "volume" \notin DOMAIN out.params

====
